---- MODULE Spec2Model ----
(***************************************************************************)
(* A model of the Dash dashboard of src/app.py: the DataFrame loaded at    *)
(* import time, the range filter _filter, the theme callback switch_theme  *)
(* and the four chart callbacks update_line, update_sources, update_bar    *)
(* and update_heatmap.                                                     *)
(*                                                                         *)
(* Time is counted in ticks since 2023-01-01T00:00:00 (a Sunday), with     *)
(* TicksPerSecond ticks to the second, so that timestamps between two      *)
(* whole seconds exist, as they do in a pandas datetime64 column.  A       *)
(* date-only bound is a day number since 2023-01-01.  A DataFrame is the   *)
(* sequence of its rows, each a record of its columns and its index label. *)
(* Python's None is the empty tuple and a present value x is <<x>>.        *)
(***************************************************************************)
EXTENDS Integers, Sequences, FiniteSets, TLC

\* ------------------------------------------------------------------ bounds
\* Resolution of the clock: ticks per second.
TicksPerSecond == 2
\* Largest number of rows of the CSV file.
MaxRows == 2
\* Largest click count of a button.
MaxClicks == 2

\* ------------------------------------------------------------ python values
None == <<>>
Some(x) == <<x>>
\* Python's `n or 0` on an optional number.
Or0(n) == IF n = None \/ n = Some(0) THEN 0 ELSE n[1]

\* ------------------------------------------------------------ time, calendar
TicksPerHour == 3600 * TicksPerSecond
TicksPerDay == 24 * TicksPerHour
\* pd.Timedelta(days=1), pd.Timedelta(seconds=1)
Timedelta(days, seconds) == days * TicksPerDay + seconds * TicksPerSecond
\* pd.to_datetime of a date-only value: midnight of that day.
to_datetime(date) == date * TicksPerDay
\* Series.dt.date / Timestamp.date(): the day a timestamp falls in.
DateOf(t) == t \div TicksPerDay

\* Lengths of the months of 2023, the year the model's timestamps lie in.
DaysInMonth == <<31, 28, 31, 30, 31, 30, 31, 31, 30, 31, 30, 31>>
RECURSIVE FirstDayOfMonth(_)
\* Day number of the first day of month m (1 = January 2023).
FirstDayOfMonth(m) == IF m = 1 THEN 0 ELSE FirstDayOfMonth(m - 1) + DaysInMonth[m - 1]
\* Series.dt.to_period("M"): the calendar month (1..12) of a timestamp.
to_period_M(t) ==
    CHOOSE m \in 1..12 :
        /\ FirstDayOfMonth(m) <= DateOf(t)
        /\ DateOf(t) < FirstDayOfMonth(m) + DaysInMonth[m]
\* Period.start_time: the first instant of a month.
start_time(m) == to_datetime(FirstDayOfMonth(m))
\* The label of a resample("M") bin: midnight of the month's last day.
month_end(m) == to_datetime(FirstDayOfMonth(m) + DaysInMonth[m] - 1)
\* The weekday names in the order of update_heatmap's `order`.
order == <<"Monday", "Tuesday", "Wednesday", "Thursday", "Friday", "Saturday", "Sunday">>
\* Series.dt.day_name(); 2023-01-01 is a Sunday.
day_name(t) == order[((DateOf(t) + 6) % 7) + 1]
\* Series.dt.hour
hour(t) == (t \div TicksPerHour) % 24

\* ------------------------------------------------------------------ the file
\* A timestamp at tick k of hour h of day d.
At(d, h, k) == d * TicksPerDay + h * TicksPerHour + k
\* The timestamps a row of the file takes: 2023-01-01 00:00, the last tick
\* of 2023-01-01, 2023-01-02 00:00 and 05:00, 2023-02-10 12:00, 2023-03-15 12:00.
Instants ==
    { At(0, 0, 0), At(0, 23, TicksPerHour - 1), At(1, 0, 0), At(1, 5, 0),
      At(40, 12, 0), At(73, 12, 0) }
\* The values a row takes in the numeric columns of the file.
ValueRows ==
    { [Consumption |-> 100, Nuclear |-> 1, Wind |-> 2],
      [Consumption |-> 200, Nuclear |-> 3, Wind |-> 5] }
CsvRows ==
    { [DateTime |-> t, Consumption |-> v.Consumption, Nuclear |-> v.Nuclear, Wind |-> v.Wind] :
        t \in Instants, v \in ValueRows }
\* pd.read_csv: the files of at most MaxRows rows.
CsvFiles == UNION { [1..n -> CsvRows] : n \in 0..MaxRows }

\* SOURCES restricted to the columns of the file.
sources_avail == <<"Nuclear", "Wind">>
\* The values of the metric and variable dropdowns.
VariableOptions == {"Consumption"} \cup {sources_avail[i] : i \in 1..Len(sources_avail)}

\* ------------------------------------------------------------------ loading
IsSortedByDateTime(s) == \A i \in 1..Len(s) - 1 : s[i].DateTime <= s[i + 1].DateTime
\* df.sort_values("DateTime"): the rows in an ascending order of DateTime.  The
\* default sort is not stable, so rows of equal DateTime come in any order.
sort_values(s) ==
    { r \in [1..Len(s) -> {s[i] : i \in 1..Len(s)}] :
        /\ IsSortedByDateTime(r)
        /\ \E p \in [1..Len(s) -> 1..Len(s)] :
            /\ \A i, j \in 1..Len(s) : i # j => p[i] # p[j]
            /\ \A i \in 1..Len(s) : r[i] = s[p[i]] }
\* reset_index(drop=True) and the derived columns MonthStart, Weekday, Hour.
WithDerived(s) ==
    [i \in 1..Len(s) |->
        [index |-> i - 1,
         DateTime |-> s[i].DateTime,
         Consumption |-> s[i].Consumption,
         Nuclear |-> s[i].Nuclear,
         Wind |-> s[i].Wind,
         MonthStart |-> start_time(to_period_M(s[i].DateTime)),
         Weekday |-> day_name(s[i].DateTime),
         Hour |-> hour(s[i].DateTime)]]
\* The DataFrames the module-level load can produce from a file.
Load(csv) == { WithDerived(r) : r \in sort_values(csv) }

\* ------------------------------------------------------------------ state
VARIABLES
    frames,        \* the DataFrame objects alive: "df" the global, "copy" a callback's
    loaded,        \* the rows of df as loaded (never written after Init)
    n_light,       \* n_clicks of btn-light
    n_dark,        \* n_clicks of btn-dark
    triggered_id,  \* ctx.triggered_id of the last switch_theme call
    theme,         \* data of theme-store
    pc,            \* "idle", or "returned" when a chart callback has returned
    call,          \* the chart callback running and its arguments
    dff,           \* the frame the callback's dff refers to
    fig            \* the figure the callback returned

vars == <<frames, loaded, n_light, n_dark, triggered_id, theme, pc, call, dff, fig>>

NoFrame == <<>>
NoCall == [cb |-> "none"]
NoFig == [chart |-> "none"]

Init ==
    /\ \E csv \in CsvFiles : \E d \in Load(csv) :
        /\ frames = [df |-> d, copy |-> NoFrame]
        /\ loaded = d
    /\ n_light = None
    /\ n_dark = None
    /\ triggered_id = None
    /\ theme = [template |-> "plotly"]
    /\ pc = "idle"
    /\ call = NoCall
    /\ dff = None
    /\ fig = NoFig

\* ------------------------------------------------------------ theme switch
\* A switch_theme that compares the two click counts instead of reading
\* ctx.triggered_id.
switch_theme_by_counts(nl, nd, trig) ==
    IF Or0(nd) > Or0(nl) THEN [template |-> "plotly_dark"] ELSE [template |-> "plotly"]

\* switch_theme(n_light, n_dark) with ctx.triggered_id = trig.
switch_theme(nl, nd, trig) ==
    IF trig = Some("btn-dark") THEN [template |-> "plotly_dark"] ELSE [template |-> "plotly"]

\* A click adds one to a button's n_clicks, which is None until the first click.
Clicked(n) == Some(Or0(n) + 1)

\* The page is loaded (or reloaded): the buttons have no click yet and Dash
\* calls switch_theme once with nothing triggered.
PageLoad ==
    /\ pc = "idle"
    /\ n_light' = None
    /\ n_dark' = None
    /\ triggered_id' = None
    /\ theme' = switch_theme(None, None, None)
    /\ UNCHANGED <<frames, loaded, pc, call, dff, fig>>

\* A click on btn-light fires switch_theme, whose result goes to theme-store.
ClickLight ==
    /\ pc = "idle"
    /\ Or0(n_light) < MaxClicks
    /\ n_light' = Clicked(n_light)
    /\ triggered_id' = Some("btn-light")
    /\ theme' = switch_theme(n_light', n_dark, triggered_id')
    /\ UNCHANGED <<frames, loaded, n_dark, pc, call, dff, fig>>

\* A click on btn-dark fires switch_theme, whose result goes to theme-store.
ClickDark ==
    /\ pc = "idle"
    /\ Or0(n_dark) < MaxClicks
    /\ n_dark' = Clicked(n_dark)
    /\ triggered_id' = Some("btn-dark")
    /\ theme' = switch_theme(n_light, n_dark', triggered_id')
    /\ UNCHANGED <<frames, loaded, n_light, pc, call, dff, fig>>

\* ------------------------------------------------------------------ _filter
\* The boolean mask of _filter: DateTime >= start and
\* DateTime <= end + 1 day - 1 second.
InRange(t, start, end) ==
    /\ t >= to_datetime(start)
    /\ t <= to_datetime(end) + Timedelta(1, 0) - Timedelta(0, 1)

\* A _filter that drops the rows out of range from dfin itself.
_filter_inplace(fr, dfin, start, end) ==
    IF start = None \/ end = None
    THEN [frames |-> fr, result |-> dfin]
    ELSE [frames |-> [fr EXCEPT ![dfin] =
                        SelectSeq(fr[dfin], LAMBDA r : InRange(r.DateTime, start[1], end[1]))],
          result |-> dfin]

\* _filter(dfin, start, end) on the frame `dfin` refers to: the frames after
\* the call and the frame the result refers to.  With an absent bound the
\* result is dfin itself; otherwise it is a new frame, the copy of the
\* selected rows.
_filter(fr, dfin, start, end) ==
    IF start = None \/ end = None
    THEN [frames |-> fr, result |-> dfin]
    ELSE [frames |-> [fr EXCEPT !.copy =
                        SelectSeq(fr[dfin], LAMBDA r : InRange(r.DateTime, start[1], end[1]))],
          result |-> "copy"]

\* The date bounds the date picker sends: None, 2023-01-01 or 2023-01-02.
DateChoices == {None, Some(0), Some(1)}

\* ------------------------------------------------------------------ helpers
Column(f, c) == [i \in 1..Len(f) |-> f[i][c]]
RECURSIVE SumSeq(_)
SumSeq(s) == IF s = <<>> THEN 0 ELSE s[1] + SumSeq(Tail(s))
RECURSIVE MaxSeq(_)
MaxSeq(s) == IF Len(s) = 1 THEN s[1]
             ELSE IF s[1] >= MaxSeq(Tail(s)) THEN s[1] ELSE MaxSeq(Tail(s))
RECURSIVE Gcd(_, _)
Gcd(a, b) == IF b = 0 THEN a ELSE Gcd(b, a % b)
\* A float, as the fraction num/den in lowest terms; NaN is 0/0.
Float(n, d) == [num |-> n \div Gcd(n, d), den |-> d \div Gcd(n, d)]
NaN == [num |-> 0, den |-> 0]
MeanSeq(s) == Float(SumSeq(s), Len(s))
RECURSIVE SortSet(_)
\* The numbers of a set in ascending order.
SortSet(S) ==
    IF S = {} THEN <<>>
    ELSE LET m == CHOOSE x \in S : \A y \in S : x <= y IN <<m>> \o SortSet(S \ {m})
Range(s) == {s[i] : i \in 1..Len(s)}

\* ------------------------------------------------------------ update_line
update_line(fr, start_date, end_date, metric, th) ==
    LET f == _filter(fr, "df", start_date, end_date)
        rows == f.frames[f.result]
    IN [frames |-> f.frames, dff |-> f.result,
        fig |-> [chart |-> "line", x |-> Column(rows, "DateTime"), y |-> Column(rows, metric),
                 title |-> metric, template |-> th.template]]

UpdateLine ==
    /\ pc = "idle"
    /\ \E start_date \in DateChoices, end_date \in DateChoices, metric \in VariableOptions :
        LET r == update_line(frames, start_date, end_date, metric, theme) IN
        /\ call' = [cb |-> "update_line", start_date |-> start_date, end_date |-> end_date,
                    metric |-> metric, theme |-> theme]
        /\ frames' = r.frames
        /\ dff' = Some(r.dff)
        /\ fig' = r.fig
    /\ pc' = "returned"
    /\ UNCHANGED <<loaded, n_light, n_dark, triggered_id, theme>>

\* ---------------------------------------------------------- update_sources
\* A view_of that gives a tie to the lines button.
view_of_ge(n_area, n_lines) == IF Or0(n_lines) >= Or0(n_area) THEN "lines" ELSE "area"

\* The chart type chosen from the two click counts.
view_of(n_area, n_lines) == IF Or0(n_lines) > Or0(n_area) THEN "lines" ELSE "area"

\* A monthly sum that groups by month instead of resampling: no row for a
\* month without rows.
resample_no_gaps(rows, cols) ==
    LET months == SortSet({to_period_M(rows[i].DateTime) : i \in 1..Len(rows)})
    IN [b \in 1..Len(months) |->
            [DateTime |-> month_end(months[b]),
             sums |-> [c \in cols |->
                SumSeq(Column(SelectSeq(rows,
                    LAMBDA r : to_period_M(r.DateTime) = months[b]), c))]]]

\* dff.set_index("DateTime")[cols].resample("M").sum().reset_index(): one row
\* for every calendar month from the month of the earliest row to the month
\* of the latest, labelled with the month's last day, holding the sum of
\* each column over the rows of that month (0 for a month without rows).
resample_M_sum(rows, cols) ==
    IF rows = <<>> THEN <<>>
    ELSE LET months == {to_period_M(rows[i].DateTime) : i \in 1..Len(rows)}
             first == CHOOSE m \in months : \A k \in months : m <= k
             last == CHOOSE m \in months : \A k \in months : m >= k
         IN [b \in 1..(last - first + 1) |->
                [DateTime |-> month_end(first + b - 1),
                 sums |-> [c \in cols |->
                    SumSeq(Column(SelectSeq(rows,
                        LAMBDA r : to_period_M(r.DateTime) = first + b - 1), c))]]]

\* An update_sources without the test of the selection: selecting the
\* columns None raises, and the callback returns no figure.
update_sources_unguarded(fr, start_date, end_date, sources_sel, n_area, n_lines, th) ==
    LET f == _filter(fr, "df", start_date, end_date)
        rows == f.frames[f.result]
    IN IF sources_sel = None
       THEN [frames |-> f.frames, dff |-> f.result, fig |-> [chart |-> "error"]]
       ELSE [frames |-> f.frames, dff |-> f.result,
             fig |-> [chart |-> view_of(n_area, n_lines),
                      monthly |-> resample_M_sum(rows, Range(sources_sel[1])),
                      y |-> sources_sel[1],
                      title |-> view_of(n_area, n_lines),
                      template |-> th.template]]

update_sources(fr, start_date, end_date, sources_sel, n_area, n_lines, th) ==
    LET f == _filter(fr, "df", start_date, end_date)
        rows == f.frames[f.result]
    IN IF sources_sel = None \/ sources_sel = Some(<<>>)
       THEN [frames |-> f.frames, dff |-> f.result,
             fig |-> [chart |-> "empty", title |-> "Selecciona al menos una fuente",
                      template |-> th.template]]
       ELSE [frames |-> f.frames, dff |-> f.result,
             fig |-> [chart |-> view_of(n_area, n_lines),
                      monthly |-> resample_M_sum(rows, Range(sources_sel[1])),
                      y |-> sources_sel[1],
                      title |-> view_of(n_area, n_lines),
                      template |-> th.template]]

\* The values of the sources checklist: absent, or a list of sources in the
\* order they were ticked.
SourceChoices ==
    {None, Some(<<>>), Some(<<"Nuclear">>), Some(<<"Wind">>),
     Some(<<"Nuclear", "Wind">>), Some(<<"Wind", "Nuclear">>)}
\* The values of a button's n_clicks.
ClickChoices == {None} \cup {Some(n) : n \in 1..MaxClicks}

UpdateSources ==
    /\ pc = "idle"
    /\ \E start_date \in DateChoices, end_date \in DateChoices, sources_sel \in SourceChoices,
          n_area \in ClickChoices, n_lines \in ClickChoices :
        LET r == update_sources(frames, start_date, end_date, sources_sel, n_area, n_lines, theme) IN
        /\ call' = [cb |-> "update_sources", start_date |-> start_date, end_date |-> end_date,
                    sources_sel |-> sources_sel, n_area |-> n_area, n_lines |-> n_lines,
                    theme |-> theme]
        /\ frames' = r.frames
        /\ dff' = Some(r.dff)
        /\ fig' = r.fig
    /\ pc' = "returned"
    /\ UNCHANGED <<loaded, n_light, n_dark, triggered_id, theme>>

\* -------------------------------------------------------------- update_bar
\* A monthly aggregation whose "sum" branch takes the maximum.
groupby_MonthStart_swapped(rows, var, agg) ==
    LET keys == SortSet({rows[i].MonthStart : i \in 1..Len(rows)})
    IN [k \in 1..Len(keys) |->
            LET vals == Column(SelectSeq(rows, LAMBDA r : r.MonthStart = keys[k]), var)
            IN [MonthStart |-> keys[k],
                value |-> IF agg = "mean" THEN MeanSeq(vals) ELSE MaxSeq(vals)]]

\* dff.groupby("MonthStart", as_index=False)[var].sum() / .mean() / .max():
\* one row for every MonthStart present, keys ascending.
groupby_MonthStart(rows, var, agg) ==
    LET keys == SortSet({rows[i].MonthStart : i \in 1..Len(rows)})
    IN [k \in 1..Len(keys) |->
            LET vals == Column(SelectSeq(rows, LAMBDA r : r.MonthStart = keys[k]), var)
            IN [MonthStart |-> keys[k],
                value |-> IF agg = "sum" THEN SumSeq(vals)
                          ELSE IF agg = "mean" THEN MeanSeq(vals)
                          ELSE MaxSeq(vals)]]

update_bar(fr, start_date, end_date, var, agg, th) ==
    LET f == _filter(fr, "df", start_date, end_date)
        rows == f.frames[f.result]
    IN [frames |-> f.frames, dff |-> f.result,
        fig |-> [chart |-> "bar", dfa |-> groupby_MonthStart(rows, var, agg),
                 title |-> <<IF agg = "sum" THEN "Suma mensual"
                             ELSE IF agg = "mean" THEN "Promedio mensual"
                             ELSE "Maximo mensual", var>>,
                 template |-> th.template]]

AggChoices == {"sum", "mean", "max"}

UpdateBar ==
    /\ pc = "idle"
    /\ \E start_date \in DateChoices, end_date \in DateChoices, var \in VariableOptions,
          agg \in AggChoices :
        LET r == update_bar(frames, start_date, end_date, var, agg, theme) IN
        /\ call' = [cb |-> "update_bar", start_date |-> start_date, end_date |-> end_date,
                    var |-> var, agg |-> agg, theme |-> theme]
        /\ frames' = r.frames
        /\ dff' = Some(r.dff)
        /\ fig' = r.fig
    /\ pc' = "returned"
    /\ UNCHANGED <<loaded, n_light, n_dark, triggered_id, theme>>

\* ---------------------------------------------------------- update_heatmap
\* The weekday names in alphabetical order, the order pivot_table sorts its
\* index in.
SortedWeekdays ==
    <<"Friday", "Monday", "Saturday", "Sunday", "Thursday", "Tuesday", "Wednesday">>

\* dff.pivot_table(index="Weekday", columns="Hour", values=var, aggfunc="mean"):
\* a row for every weekday present and a column for every hour present, both
\* sorted; a cell holds the mean of its rows, NaN when it has none.
pivot_table(rows, var) ==
    LET idx == SelectSeq(SortedWeekdays, LAMBDA w : \E i \in 1..Len(rows) : rows[i].Weekday = w)
        cols == SortSet({rows[i].Hour : i \in 1..Len(rows)})
    IN [index |-> idx, columns |-> cols,
        values |-> [i \in 1..Len(idx) |-> [j \in 1..Len(cols) |->
            LET vals == Column(SelectSeq(rows,
                            LAMBDA r : r.Weekday = idx[i] /\ r.Hour = cols[j]), var)
            IN IF vals = <<>> THEN NaN ELSE MeanSeq(vals)]]]

\* pv.reindex(labels, axis=0, fill_value=fill): the rows in the order of
\* labels; the row of a label pv lacks holds fill in every column.
reindex_rows(pv, labels, fill) ==
    [index |-> labels, columns |-> pv.columns,
     values |-> [i \in 1..Len(labels) |->
        IF \E k \in 1..Len(pv.index) : pv.index[k] = labels[i]
        THEN pv.values[CHOOSE k \in 1..Len(pv.index) : pv.index[k] = labels[i]]
        ELSE [j \in 1..Len(pv.columns) |-> fill]]]

update_heatmap(fr, start_date, end_date, var, th) ==
    LET f == _filter(fr, "df", start_date, end_date)
        rows == f.frames[f.result]
        pv == reindex_rows(pivot_table(rows, var), order, Float(0, 1))
    IN [frames |-> f.frames, dff |-> f.result,
        fig |-> [chart |-> "heatmap", z |-> pv.values, x |-> pv.columns, y |-> pv.index,
                 title |-> var, template |-> th.template]]

UpdateHeatmap ==
    /\ pc = "idle"
    /\ \E start_date \in DateChoices, end_date \in DateChoices, var \in VariableOptions :
        LET r == update_heatmap(frames, start_date, end_date, var, theme) IN
        /\ call' = [cb |-> "update_heatmap", start_date |-> start_date, end_date |-> end_date,
                    var |-> var, theme |-> theme]
        /\ frames' = r.frames
        /\ dff' = Some(r.dff)
        /\ fig' = r.fig
    /\ pc' = "returned"
    /\ UNCHANGED <<loaded, n_light, n_dark, triggered_id, theme>>

\* The response is sent: the callback's locals and the figure are dropped.
Respond ==
    /\ pc = "returned"
    /\ pc' = "idle"
    /\ call' = NoCall
    /\ dff' = None
    /\ fig' = NoFig
    /\ frames' = [frames EXCEPT !.copy = NoFrame]
    /\ UNCHANGED <<loaded, n_light, n_dark, triggered_id, theme>>

\* ---------------------------------------------------------- specifications
NextTheme ==
    \/ PageLoad
    \/ ClickLight
    \/ ClickDark

NextCharts ==
    \/ UpdateLine
    \/ UpdateSources
    \/ UpdateBar
    \/ UpdateHeatmap
    \/ Respond

Next ==
    \/ PageLoad
    \/ ClickLight
    \/ ClickDark
    \/ UpdateLine
    \/ UpdateSources
    \/ UpdateBar
    \/ UpdateHeatmap
    \/ Respond

\* The whole dashboard.
Spec == Init /\ [][Next]_vars

\* The theme buttons alone.
SpecTheme == Init /\ [][NextTheme]_vars

\* The chart callbacks alone, on a page whose theme is the light one of the
\* page load or the dark one of a first click on btn-dark.
InitCharts ==
    /\ \E csv \in CsvFiles : \E d \in Load(csv) :
        /\ frames = [df |-> d, copy |-> NoFrame]
        /\ loaded = d
    /\ n_light = None
    /\ \/ /\ n_dark = None
          /\ triggered_id = None
       \/ /\ n_dark = Clicked(None)
          /\ triggered_id = Some("btn-dark")
    /\ theme = switch_theme(n_light, n_dark, triggered_id)
    /\ pc = "idle"
    /\ call = NoCall
    /\ dff = None
    /\ fig = NoFig

SpecCharts == InitCharts /\ [][NextCharts]_vars

\* ------------------------------------------------------------------ claims
\* What the formulas below read of a returned chart callback.
Returned(cb) == pc = "returned" /\ call.cb = cb
\* The rows the callback's dff holds.
DffRows == frames[dff[1]]
BothBounds == call.start_date # None /\ call.end_date # None
\* The value of an optional click count, None counting as 0.
CountOf(n) == IF n = None THEN 0 ELSE n[1]
RECURSIVE SumOver(_, _, _)
\* The sum of column c over the rows of positions I.
SumOver(rows, c, I) ==
    IF I = {} THEN 0
    ELSE LET i == CHOOSE k \in I : TRUE IN rows[i][c] + SumOver(rows, c, I \ {i})
\* The positions of the rows of a calendar month.
InMonth(rows, m) == {i \in 1..Len(rows) : to_period_M(rows[i].DateTime) = m}
MonthsOf(rows) == {to_period_M(rows[i].DateTime) : i \in 1..Len(rows)}
\* The rearrangements of a sequence of rows.
Rearranged(rows) ==
    { [i \in 1..Len(rows) |-> rows[p[i]]] :
        p \in {q \in [1..Len(rows) -> 1..Len(rows)] :
                \A i, j \in 1..Len(rows) : i # j => q[i] # q[j]} }

\* C1 (as claimed): with both bounds present and start <= end, _filter returns
\* exactly the rows of the Dataset with start <= t < end + 1 day, as a
\* contiguous run in the Dataset's order.
C1_FilterHalfOpenInterval ==
    (pc = "returned" /\ BothBounds /\ call.start_date[1] <= call.end_date[1]) =>
        /\ DffRows = SelectSeq(loaded, LAMBDA r :
                        /\ to_datetime(call.start_date[1]) <= r.DateTime
                        /\ r.DateTime < to_datetime(call.end_date[1] + 1))
        /\ \A i \in 1..Len(DffRows) - 1 : DffRows[i + 1].index = DffRows[i].index + 1

\* C2 (as claimed): the theme in theme-store is the dark template exactly
\* when btn-dark's click count is strictly greater than btn-light's.
C2_ThemeByClickCounts ==
    theme.template = IF CountOf(n_dark) > CountOf(n_light) THEN "plotly_dark" ELSE "plotly"

\* C2 (amended): the theme in theme-store is decided by the button clicked
\* last: the dark template exactly when the last click was on btn-dark, the
\* light template otherwise, also before any click; the click counts do not
\* decide it.
C2_ThemeByLastClick ==
    /\ theme.template \in {"plotly", "plotly_dark"}
    /\ theme.template = "plotly_dark" <=> triggered_id = Some("btn-dark")
    /\ (n_light = None /\ n_dark = None) => theme.template = "plotly"

\* Two clicks on btn-dark, then one on btn-light: the light theme, with the
\* dark count the greater.
C2_Witness ==
    /\ n_dark = Some(2)
    /\ n_light = Some(1)
    /\ triggered_id = Some("btn-light")
    /\ theme.template = "plotly"

\* C3 (as claimed), for the filtered subsets that have a row: the pivot of
\* update_heatmap has the 7 rows Monday..Sunday and the 24 columns 0..23,
\* also when some weekdays or hours have no filtered row.
C3_PivotShape ==
    (Returned("update_heatmap") /\ DffRows # <<>>) =>
        /\ fig.y = order
        /\ fig.x = [j \in 1..24 |-> j - 1]

\* C4 (as claimed), for the columns the pivot has: a cell with filtered
\* rows holds the mean of the variable over them, and a cell with none
\* holds 0.0, also in the row of a weekday that has rows at other hours.
C4_PivotCells ==
    Returned("update_heatmap") =>
        \A i \in 1..Len(fig.y), j \in 1..Len(fig.x) :
            LET I == {k \in 1..Len(DffRows) :
                        DffRows[k].Weekday = fig.y[i] /\ DffRows[k].Hour = fig.x[j]}
            IN IF I = {}
               THEN fig.z[i][j] = [num |-> 0, den |-> 1]
               ELSE /\ fig.z[i][j].den > 0
                    /\ fig.z[i][j].num * Cardinality(I)
                        = SumOver(DffRows, call.var, I) * fig.z[i][j].den

\* C5 (as claimed): with sources chosen, update_sources yields one row for
\* every calendar month that has a filtered row and none for any other
\* month, in ascending order, each holding the sums of the chosen sources.
C5_NoRowForEmptyMonth ==
    (Returned("update_sources") /\ fig.chart # "empty") =>
        /\ [b \in 1..Len(fig.monthly) |-> to_period_M(fig.monthly[b].DateTime)]
            = SortSet(MonthsOf(DffRows))
        /\ \A b \in 1..Len(fig.monthly) : \A c \in Range(call.sources_sel[1]) :
            fig.monthly[b].sums[c]
                = SumOver(DffRows, c, InMonth(DffRows, to_period_M(fig.monthly[b].DateTime)))

\* C5 (amended): with sources chosen, update_sources yields one row for
\* every calendar month from the month of the earliest filtered row to the
\* month of the latest, in ascending order and on the same month axis for
\* all chosen sources; a row holds for each chosen source the sum of its
\* values in that month, which is 0 for a month without filtered rows lying
\* between two months that have some.  No filtered row gives no row.
C5_MonthlyResample ==
    (Returned("update_sources") /\ fig.chart # "empty") =>
        LET months == MonthsOf(DffRows)
            m == fig.monthly
        IN /\ DffRows = <<>> => m = <<>>
           /\ DffRows # <<>> =>
                /\ \E first \in months, last \in months :
                    /\ \A k \in months : first <= k /\ k <= last
                    /\ Len(m) = last - first + 1
                    /\ \A b \in 1..Len(m) : to_period_M(m[b].DateTime) = first + b - 1
                /\ \A b \in 1..Len(m) :
                    /\ DOMAIN m[b].sums = Range(call.sources_sel[1])
                    /\ \A c \in Range(call.sources_sel[1]) :
                        m[b].sums[c]
                            = SumOver(DffRows, c, InMonth(DffRows, to_period_M(m[b].DateTime)))

\* Rows in January and March only: three monthly rows, February's holding 0
\* for both sources.
C5_Witness ==
    /\ Returned("update_sources")
    /\ fig.chart # "empty"
    /\ call.sources_sel = Some(<<"Nuclear", "Wind">>)
    /\ MonthsOf(DffRows) = {1, 3}
    /\ Len(fig.monthly) = 3
    /\ fig.monthly[2].sums = [c \in {"Nuclear", "Wind"} |-> 0]

\* C6: the chart type of update_sources is "lines" exactly when n_lines is
\* strictly greater than n_area, an absent count being 0, and "area"
\* otherwise: (None, None) and every tie give "area", (2, 1) gives "area",
\* (1, 2) gives "lines".
C6_ViewByClickCounts ==
    (Returned("update_sources") /\ fig.chart # "empty") =>
        /\ fig.chart = IF CountOf(call.n_lines) > CountOf(call.n_area) THEN "lines" ELSE "area"
        /\ CountOf(call.n_lines) = CountOf(call.n_area) => fig.chart = "area"
        /\ (call.n_area = None /\ call.n_lines = None) => fig.chart = "area"
        /\ (call.n_area = Some(2) /\ call.n_lines = Some(1)) => fig.chart = "area"
        /\ (call.n_area = Some(1) /\ call.n_lines = Some(2)) => fig.chart = "lines"

\* One click on the area button, two on the lines button: lines.
C6_Witness ==
    /\ Returned("update_sources")
    /\ call.n_area = Some(1)
    /\ call.n_lines = Some(2)
    /\ fig.chart = "lines"

\* C7: with an empty or absent selection update_sources returns the "no
\* selection" placeholder figure in the current template, with no monthly
\* series in it, whatever the date bounds, the click counts and the theme.
C7_EmptySelectionPlaceholder ==
    (Returned("update_sources")
        /\ (call.sources_sel = None \/ call.sources_sel = Some(<<>>))) =>
            fig = [chart |-> "empty", title |-> "Selecciona al menos una fuente",
                   template |-> call.theme.template]

\* An absent selection, on a range that matches no row of a Dataset that has
\* rows, in the dark theme, with clicks on both buttons.
C7_Witness ==
    /\ Returned("update_sources")
    /\ call.sources_sel = None
    /\ BothBounds
    /\ loaded # <<>>
    /\ DffRows = <<>>
    /\ call.theme.template = "plotly_dark"
    /\ call.n_area # None
    /\ call.n_lines # None
    /\ fig.chart = "empty"

\* The Dataset of the rows 2023-01-01T00:00 = 100 and 2023-01-02T00:00 = 200.
TwoRowDataset ==
    /\ Len(loaded) = 2
    /\ loaded[1].DateTime = At(0, 0, 0) /\ loaded[1].Consumption = 100
    /\ loaded[2].DateTime = At(1, 0, 0) /\ loaded[2].Consumption = 200

\* C8: update_bar yields one (MonthStart, value) row for every calendar
\* month with a filtered row, months ascending; value is the sum, the mean
\* or the maximum of the variable over the month's rows, as chosen; the rows
\* in another order give the same result; the two-row Dataset, unfiltered,
\* gives for "sum" the one row January 2023 = 300.
C8_MonthlyAggregation ==
    Returned("update_bar") =>
        LET dfa == fig.dfa IN
        /\ [k \in 1..Len(dfa) |-> dfa[k].MonthStart]
            = SortSet({start_time(m) : m \in MonthsOf(DffRows)})
        /\ \A k \in 1..Len(dfa) :
            LET I == {i \in 1..Len(DffRows) : DffRows[i].MonthStart = dfa[k].MonthStart}
                v == dfa[k].value
            IN /\ I # {}
               /\ call.agg = "sum" => v = SumOver(DffRows, call.var, I)
               /\ call.agg = "mean" =>
                    /\ v.den > 0
                    /\ v.num * Cardinality(I) = SumOver(DffRows, call.var, I) * v.den
               /\ call.agg = "max" =>
                    /\ \A i \in I : DffRows[i][call.var] <= v
                    /\ \E i \in I : DffRows[i][call.var] = v
        /\ \A r \in Rearranged(DffRows) : groupby_MonthStart(r, call.var, call.agg) = dfa
        /\ (TwoRowDataset /\ ~BothBounds /\ call.agg = "sum" /\ call.var = "Consumption") =>
                dfa = <<[MonthStart |-> start_time(1), value |-> 300]>>

\* The two-row Dataset, unfiltered, summed: January 2023 = 300.
C8_Witness ==
    /\ Returned("update_bar")
    /\ TwoRowDataset
    /\ ~BothBounds
    /\ call.agg = "sum"
    /\ call.var = "Consumption"
    /\ fig.dfa = <<[MonthStart |-> 0, value |-> 300]>>

\* The frames after a change to the frame `ref` refers to: its rows dropped.
Changed(fr, ref) == [fr EXCEPT ![ref] = <<>>]

\* C9 (as claimed): _filter leaves the Dataset as it is, and its result is
\* independent of the Dataset, so that a change to the result leaves the
\* Dataset as it is, with both bounds present and with a bound absent, when
\* the result has the rows of the Dataset.
C9_FilterResultIndependent ==
    pc = "returned" =>
        /\ frames.df = loaded
        /\ ~BothBounds => DffRows = loaded
        /\ Changed(frames, dff[1]).df = frames.df

====
